---------------------------- MODULE Spec2Model ----------------------------
(***************************************************************************)
(* A model of vibeETL: the FK dependency graph (depend.py), the            *)
(* stage -> merge extractor (extract.py) and the configuration endpoint    *)
(* (fast.py).                                                              *)
(*                                                                         *)
(* Names are Python strings, modelled as sequences of character codes so   *)
(* that "." in name, str.endswith and sorted() are computed on characters. *)
(***************************************************************************)
EXTENDS Integers, Sequences, FiniteSets, TLC

VARIABLES
    cat_tables,   \* inspector: the <<schema, table>> pairs of the database
    cat_fks,      \* inspector: the foreign keys, [schema, table, referred_schema, referred_table]
    parents,      \* DependencyGraph.parents : child -> {parents}   (a defaultdict: keys exist once written)
    children,     \* DependencyGraph.children: parent -> {children}
    call,         \* the last call made on the graph or the API, and what it returned or raised
    pk_numeric,   \* source schema: table -> whether its primary key column is Integer / BigInteger
    src,          \* source database: table -> set of rows (a row maps every column to a value)
    dest,         \* destination database: table name -> set of rows, for the tables that exist
    fk_checks,    \* destination: the foreign_key_checks setting
    store,        \* config_store.store: cfg_id -> [selections, load_order]
    next_id,      \* config_store.next_id
    sync_state,   \* extract.sync_state: <<cfg_id, table>> -> last_pk, for the entries written
    run,          \* worker -> the locals of its run_sync call and its position in it
    prev,         \* history: the run that ended before the current one began
    runs,         \* history: run_sync calls made so far
    changes       \* history: source changes made so far

gvars == <<cat_tables, cat_fks, parents, children>>
dbvars == <<pk_numeric, src, dest, fk_checks>>
cfgvars == <<store, next_id>>
syncvars == <<sync_state, run, prev, runs>>
vars == <<gvars, call, dbvars, cfgvars, syncvars, changes>>

---------------------------------------------------------------------------
(* Characters and names                                                    *)

Dot == 46

SchemaA == <<97>>
SchemaB == <<98>>
SchemaX == <<120>>          \* stands for an excluded schema (information_schema)
NameT == <<116>>
NameU == <<117>>
NameV == <<118>>

\* Python None, and SQL NULL; a present value v is <<v>>
None == <<>>
Some(v) == <<v>>

\* depend.py _qual: f"{schema}.{table}"
Qual(schema, table) == schema \o <<Dot>> \o table

\* "." in name
HasDot(name) == \E i \in 1..Len(name) : name[i] = Dot

\* str.endswith
EndsWith(s, suffix) ==
    /\ Len(suffix) <= Len(s)
    /\ SubSeq(s, Len(s) - Len(suffix) + 1, Len(s)) = suffix

\* Python's order on str: by code point, a proper prefix first.
StrLess(a, b) ==
    \E i \in 1..(Len(a) + 1) :
        /\ \A j \in 1..(i - 1) : j <= Len(b) /\ a[j] = b[j]
        /\ \/ i = Len(a) + 1 /\ Len(b) >= i
           \/ i <= Len(a) /\ i <= Len(b) /\ a[i] < b[i]

MinStr(S) == CHOOSE x \in S : \A y \in S \ {x} : StrLess(x, y)

\* sorted(S) for a set of strings
RECURSIVE Sorted(_)
Sorted(S) ==
    IF S = {} THEN <<>>
    ELSE LET m == MinStr(S) IN <<m>> \o Sorted(S \ {m})

Range(seq) == {seq[i] : i \in 1..Len(seq)}

---------------------------------------------------------------------------
(* DependencyGraph                                                         *)

\* __init__: exclude_schemas (include_schemas is None in fast.py)
ExcludeSchemas == {SchemaX}

\* _build: the schemas that pass the include / exclude filter
ScannedSchemas(tables) == {st[1] : st \in tables} \ ExcludeSchemas

\* _build: the (child, parent) pair an FK of a scanned table contributes
FkChild(fk) == Qual(fk.schema, fk.table)
FkParent(fk) ==
    Qual(IF fk.referred_schema = None THEN fk.schema ELSE fk.referred_schema,
         fk.referred_table)

\* _build: the FKs that reach the add() calls (scanned schema, not a self-reference)
BuildEdges(tables, fks) ==
    {<<FkChild(fk), FkParent(fk)>> :
        fk \in {f \in fks : /\ f.schema \in ScannedSchemas(tables)
                            /\ <<f.schema, f.table>> \in tables
                            /\ FkParent(f) # FkChild(f)}}

\* _build: self.parents after the loops
BuildParents(tables, fks) ==
    LET E == BuildEdges(tables, fks) IN
    [c \in {e[1] : e \in E} |-> {e[2] : e \in {x \in E : x[1] = c}}]

\* _build: self.children after the loops
BuildChildren(tables, fks) ==
    LET E == BuildEdges(tables, fks) IN
    [p \in {e[2] : e \in E} |-> {e[1] : e \in {x \in E : x[2] = p}}]

\* self.parents.get(tbl, [])
ParentsGet(tbl) == IF tbl \in DOMAIN parents THEN parents[tbl] ELSE {}

\* self.children.get(node, [])
ChildrenGet(node) == IF node \in DOMAIN children THEN children[node] ELSE {}

\* set(self.parents).union(self.children)
KnownTables == DOMAIN parents \cup DOMAIN children

\* _resolve: the candidates of a bare name
Candidates(name) == {t \in KnownTables : EndsWith(t, <<Dot>> \o name)}

\* _resolve: what it returns or raises
Resolve(name) ==
    IF HasDot(name) THEN [kind |-> "ok", value |-> name]
    ELSE LET cands == Candidates(name) IN
         IF cands = {} THEN [kind |-> "KeyError", why |-> "not found", name |-> name]
         ELSE IF Cardinality(cands) > 1
              THEN [kind |-> "KeyError", why |-> "ambiguous", name |-> name,
                    candidates |-> cands]
              ELSE [kind |-> "ok", value |-> CHOOSE t \in cands : TRUE]

\* _closure_up: the while loop, q the work list and tables the growing set
RECURSIVE ClosureLoop(_, _)
ClosureLoop(tables, q) ==
    IF q = {} THEN tables
    ELSE LET tbl == CHOOSE t \in q : TRUE
             new == ParentsGet(tbl) \ tables
         IN ClosureLoop(tables \cup new, (q \ {tbl}) \cup new)

ClosureUp(tables) == ClosureLoop(tables, tables)

\* _toposort: indeg after the counting loops
InitIndeg(subset) ==
    [t \in subset |-> Cardinality(ParentsGet(t) \cap subset)]

\* _toposort: for child in sorted(children.get(node)): decrement, append at zero
RECURSIVE VisitChildren(_, _, _)
VisitChildren(cs, indeg, q) ==
    IF cs = <<>> THEN [indeg |-> indeg, q |-> q]
    ELSE LET child == Head(cs) IN
         IF child \in DOMAIN indeg
         THEN LET d == indeg[child] - 1 IN
              VisitChildren(Tail(cs), [indeg EXCEPT ![child] = d],
                            IF d = 0 THEN Append(q, child) ELSE q)
         ELSE VisitChildren(Tail(cs), indeg, q)

\* _toposort: the while q loop
RECURSIVE KahnLoop(_, _, _)
KahnLoop(q, order, indeg) ==
    IF q = <<>> THEN order
    ELSE LET node == Head(q)
             r == VisitChildren(Sorted(ChildrenGet(node)), indeg, Tail(q))
         IN KahnLoop(r.q, Append(order, node), r.indeg)

\* _toposort with the error naming sorted(subset), the tables already ordered included
ToposortNamesWholeSubset(subset) ==
    LET indeg == InitIndeg(subset)
        order == KahnLoop(Sorted({t \in subset : indeg[t] = 0}), <<>>, indeg)
    IN IF Len(order) # Cardinality(subset)
       THEN [kind |-> "ValueError", cycle |-> Sorted(subset)]
       ELSE [kind |-> "ok", value |-> order]

\* _toposort: the order, or ValueError naming sorted(subset - set(order))
Toposort(subset) ==
    LET indeg == InitIndeg(subset)
        order == KahnLoop(Sorted({t \in subset : indeg[t] = 0}), <<>>, indeg)
    IN IF Len(order) # Cardinality(subset)
       THEN [kind |-> "ValueError", cycle |-> Sorted(subset \ Range(order))]
       ELSE [kind |-> "ok", value |-> order]

\* the orders in which a for loop may walk a set or the keys of a dict
RECURSIVE Iterations(_)
Iterations(S) ==
    IF S = {} THEN {<<>>}
    ELSE UNION {{<<x>> \o it : it \in Iterations(S \ {x})} : x \in S}

\* sorted() left out: the list in the order the set was walked
AsIterated(it) == it

RECURSIVE InsertSorted(_, _)
InsertSorted(x, seq) ==
    IF seq = <<>> THEN <<x>>
    ELSE IF StrLess(x, Head(seq)) THEN <<x>> \o seq
    ELSE <<Head(seq)>> \o InsertSorted(x, Tail(seq))

\* sorted(it) for one walk it of a set of strings
RECURSIVE PySorted(_)
PySorted(it) ==
    IF it = <<>> THEN <<>> ELSE InsertSorted(Head(it), PySorted(Tail(it)))

\* _build: parents and children after the add() calls for the foreign keys in the
\* order listing, the inspector's
RECURSIVE BuildFold(_, _, _)
BuildFold(listing, ps, cs) ==
    IF listing = <<>> THEN <<ps, cs>>
    ELSE LET child == FkChild(Head(listing))
             parent == FkParent(Head(listing))
         IN IF parent = child THEN BuildFold(Tail(listing), ps, cs)
            ELSE BuildFold(Tail(listing),
                     [t \in DOMAIN ps \cup {child} |->
                         (IF t \in DOMAIN ps THEN ps[t] ELSE {})
                            \cup (IF t = child THEN {parent} ELSE {})],
                     [t \in DOMAIN cs \cup {parent} |->
                         (IF t \in DOMAIN cs THEN cs[t] ELSE {})
                            \cup (IF t = parent THEN {child} ELSE {})])

\* _closure_up: the sets it can return, over the walks of deque(tables) and of
\* self.parents.get(tbl)
RECURSIVE ClosureSets(_, _)
ClosureSets(tables, q) ==
    IF q = <<>> THEN {tables}
    ELSE LET new == ParentsGet(Head(q)) \ tables IN
         UNION {ClosureSets(tables \cup new, Tail(q) \o it) : it \in Iterations(new)}

ClosureUpSets(tables) == UNION {ClosureSets(tables, it) : it \in Iterations(tables)}

\* _toposort: the orders the while loop can build, over the walks of
\* self.children.get(node)
RECURSIVE KahnOrders(_, _, _)
KahnOrders(q, order, indeg) ==
    IF q = <<>> THEN {order}
    ELSE UNION {LET r == VisitChildren(PySorted(it), indeg, Tail(q))
                IN KahnOrders(r.q, Append(order, Head(q)), r.indeg) :
                    it \in Iterations(ChildrenGet(Head(q)))}

\* _toposort: what it can return or raise, over the walks of indeg.items() too
ToposortOutcomes(subset) ==
    LET indeg == InitIndeg(subset)
        orders == UNION {KahnOrders(PySorted(it), <<>>, indeg) :
                           it \in Iterations({t \in subset : indeg[t] = 0})}
    IN UNION {IF Len(order) # Cardinality(subset)
              THEN {[kind |-> "ValueError", cycle |-> PySorted(it)] :
                       it \in Iterations(subset \ Range(order))}
              ELSE {[kind |-> "ok", value |-> order]} : order \in orders}

\* sorted_tables: the outcomes of one call (the first _resolve that raises ends it;
\* which one is first depends on the order of the caller's list)
SortedTablesOutcomes(selected) ==
    IF selected = {} THEN {Toposort(ClosureUp(KnownTables))}
    ELSE LET res == [n \in selected |-> Resolve(n)]
             bad == {n \in selected : res[n].kind # "ok"}
         IN IF bad # {} THEN {res[n] : n \in bad}
            ELSE {Toposort(ClosureUp({res[n].value : n \in selected}))}

---------------------------------------------------------------------------
(* The source schema the extractor runs against                            *)

NameP == <<112>>
NameC == <<99>>
NameQ == <<113>>
TblP == Qual(SchemaA, NameP)       \* a.p: the parent table
TblC == Qual(SchemaA, NameC)       \* a.c: the child table, FK parent_id -> a.p
TblQ == Qual(SchemaA, NameQ)       \* a.q: a table with no foreign key at all

TblT == Qual(SchemaA, NameT)       \* a.t and b.t refer to each other
SyncTables == {TblP, TblC}

SyncCatTables ==
    {<<SchemaA, NameP>>, <<SchemaA, NameC>>, <<SchemaA, NameQ>>,
     <<SchemaA, NameT>>, <<SchemaB, NameT>>}
SyncCatFks ==
    {[schema |-> SchemaA, table |-> NameC, referred_schema |-> None, referred_table |-> NameP],
     [schema |-> SchemaA, table |-> NameT, referred_schema |-> SchemaB, referred_table |-> NameT],
     [schema |-> SchemaB, table |-> NameT, referred_schema |-> SchemaA, referred_table |-> NameT]}

\* src_tbl.name: the table name without its schema
RECURSIVE BareName(_)
BareName(t) == IF HasDot(t) THEN BareName(Tail(t)) ELSE t

\* src_tbl.columns: name, nullable, default, server_default
SrcColumns(t) ==
    IF t = TblP
    THEN {[name |-> "id", nullable |-> FALSE, default |-> None, server_default |-> Some("nextval")],
          [name |-> "name", nullable |-> TRUE, default |-> None, server_default |-> None]}
    ELSE {[name |-> "id", nullable |-> FALSE, default |-> None, server_default |-> None],
          [name |-> "parent_id", nullable |-> FALSE, default |-> None, server_default |-> None],
          [name |-> "label", nullable |-> TRUE, default |-> None, server_default |-> None],
          [name |-> "note", nullable |-> TRUE, default |-> None, server_default |-> None]}

ColumnNames(t) == {c.name : c \in SrcColumns(t)}

\* list(src_tbl.primary_key.columns)[0].name
PkName(t) == "id"

\* required_cols
RequiredCols(t) ==
    {c.name : c \in {x \in SrcColumns(t) :
        (~x.nullable) /\ x.default = None /\ x.server_default = None}}

\* is_numeric(pk_col)
IsNumeric(t) == pk_numeric[t]

\* run_sync step 1: the column list of a table of the plan
ResolveCols(sel, tbl_name) ==
    LET user_cols == IF tbl_name \in DOMAIN sel THEN sel[tbl_name] ELSE <<"*">>
        cols0 == IF user_cols = <<"*">> THEN ColumnNames(tbl_name) ELSE Range(user_cols)
        cols1 == cols0 \cup RequiredCols(tbl_name)
    IN IF PkName(tbl_name) \notin cols1 THEN cols1 \cup {PkName(tbl_name)} ELSE cols1

\* f"_stg_{name}"
StgName(name) == <<95, 115, 116, 103, 95>> \o name

\* A source row: the key in the primary-key column, the version in every other column
SrcRow(t, k, v) == [c \in ColumnNames(t) |-> IF c = PkName(t) THEN Some(k) ELSE Some(v)]

Pk(row) == row["id"][1]
Keys(rows) == {Pk(r) : r \in rows}

\* select([src_tbl.c[c] for c in cols]) of one row, inserted into the staging table:
\* the columns that are not given are NULL
Project(row, cols) == [c \in DOMAIN row |-> IF c \in cols THEN row[c] ELSE None]

\* ORDER BY pk
RECURSIVE OrderByPk(_)
OrderByPk(rows) ==
    IF rows = {} THEN <<>>
    ELSE LET m == CHOOSE r \in rows : \A o \in rows : Pk(r) <= Pk(o)
         IN <<m>> \o OrderByPk(rows \ {m})

\* rows per batch (10_000 in the source, scaled down)
CHUNK == 2

\* .limit(CHUNK).offset(offset) of an ordered result
LimitOffset(seq, limit, offset) ==
    SubSeq(seq, offset + 1, IF Len(seq) < offset + limit THEN Len(seq) ELSE offset + limit)

\* copy_to_staging, numeric path: WHERE pk > cursor ORDER BY pk LIMIT CHUNK
NumericBatch(t, cursor) ==
    LimitOffset(OrderByPk({r \in src[t] : Pk(r) > cursor}), CHUNK, 0)

\* copy_to_staging, fallback path: ORDER BY pk LIMIT CHUNK OFFSET offset
OffsetBatch(t, offset) == LimitOffset(OrderByPk(src[t]), CHUNK, offset)

\* select(func.max(pk_col)).scalar()
MaxPk(t) ==
    IF src[t] = {} THEN None
    ELSE Some(CHOOSE k \in Keys(src[t]) : \A o \in Keys(src[t]) : o <= k)

\* INSERT IGNORE in place of REPLACE: a staged row whose key the destination holds is dropped
InsertIgnoreInto(dest_rows, stg_rows, cols) ==
    dest_rows \cup {Project(r, cols) : r \in {x \in stg_rows : Pk(x) \notin Keys(dest_rows)}}

\* REPLACE INTO dest (cols) SELECT cols FROM stg
ReplaceInto(dest_rows, stg_rows, cols) ==
    {r \in dest_rows : Pk(r) \notin Keys(stg_rows)} \cup {Project(r, cols) : r \in stg_rows}

\* sync_state[cfg_id].get(tbl_name)
CursorGet(state, cfg_id, tbl_name) ==
    IF <<cfg_id, tbl_name>> \in DOMAIN state THEN state[<<cfg_id, tbl_name>>] ELSE None

\* sync_state[cfg_id][tbl_name] = value
CursorSet(state, cfg_id, tbl_name, value) ==
    [e \in DOMAIN state \cup {<<cfg_id, tbl_name>>} |->
        IF e = <<cfg_id, tbl_name>> THEN value ELSE state[e]]

---------------------------------------------------------------------------
(* Bounds                                                                  *)

MaxKey == 2          \* primary keys are drawn from Sentinel..MaxKey
MaxChanges == 1      \* source rows inserted or updated in one behaviour
MaxRuns == 2         \* run_sync calls in one behaviour
MaxConfigs == 1      \* configurations stored in one behaviour

\* copy_to_staging: cursor = last_pk if last_pk is not None else -1
Sentinel == -1

KeyDomain == Sentinel..MaxKey
Workers == {1}

---------------------------------------------------------------------------
(* run_sync                                                                *)

Snapshot == [src |-> src, dest |-> dest, sync_state |-> sync_state]
NoSnapshot == [src |-> <<>>, dest |-> <<>>, sync_state |-> <<>>]

IdleRun ==
    [pc |-> "idle", cfg_id |-> 0, full |-> FALSE, sel |-> <<>>, order |-> <<>>, i |-> 0,
     meta |-> {}, cols |-> {}, last_pk |-> None, cursor |-> 0, offset |-> 0,
     staged |-> <<>>, wrote |-> <<>>, at |-> "", pre |-> NoSnapshot]

\* Of a run record, pc .. offset are the locals of run_sync and copy_to_staging; the
\* rest is history: staged (table -> the rows this run inserted into its staging
\* table), wrote (table -> the cursor this run stored), at (the statement that
\* raised) and pre (the databases and cursors when the run began).

Ended(w) == run[w].pc \in {"idle", "notfound", "done", "failed"}

\* the table the loop of run_sync is at
Tbl(w) == run[w].order[run[w].i]
DestName(w) == BareName(Tbl(w))

\* for tbl_name in order: the top of the loop body for the i-th table (step 1), or the
\* statement after the loop
EnterTable(r, i) ==
    IF i <= Len(r.order)
    THEN [r EXCEPT !.pc = "ensure_dest", !.i = i, !.cols = ResolveCols(r.sel, r.order[i])]
    ELSE [r EXCEPT !.pc = "fk_on"]

\* an exception leaves run_sync: nothing catches it, nothing is undone
Raise(w) == run' = [run EXCEPT ![w].pc = "failed", ![w].at = run[w].pc]

\* run_sync is called (extract_now's background task, the scheduler's job, the CLI)
RunSync(w, cfg_id, full) ==
    /\ Ended(w)
    /\ runs < MaxRuns
    /\ runs' = runs + 1
    /\ prev' = IF run[w].pc \in {"done", "failed"}
               THEN [status |-> run[w].pc, cfg_id |-> run[w].cfg_id, full |-> run[w].full,
                     order |-> run[w].order, i |-> run[w].i, at |-> run[w].at,
                     pre |-> run[w].pre]
               ELSE prev
    /\ IF cfg_id \notin DOMAIN store
       THEN run' = [run EXCEPT ![w] = [IdleRun EXCEPT !.pc = "notfound"]]
       ELSE run' = [run EXCEPT ![w] =
                [IdleRun EXCEPT !.pc = "reflect", !.cfg_id = cfg_id, !.full = full,
                                !.sel = store[cfg_id].selections,
                                !.order = store[cfg_id].load_order,
                                !.pre = Snapshot]]
    /\ UNCHANGED <<gvars, call, dbvars, cfgvars, sync_state, changes>>

\* src_meta.reflect, dest_meta.reflect: dest_meta knows the tables that exist now
Reflect(w) ==
    /\ run[w].pc = "reflect"
    /\ run' = [run EXCEPT ![w].pc = "fk_off", ![w].meta = DOMAIN dest]
    /\ UNCHANGED <<gvars, call, dbvars, cfgvars, sync_state, prev, runs, changes>>

\* the statement before the loop leaves foreign_key_checks as it finds it
FkOffLeavesChecks(w) ==
    /\ run[w].pc = "fk_off"
    /\ fk_checks' = fk_checks
    /\ run' = [run EXCEPT ![w] = EnterTable(run[w], 1)]
    /\ UNCHANGED <<gvars, call, pk_numeric, src, dest, cfgvars, sync_state, prev, runs, changes>>

\* SET foreign_key_checks = 0
FkOff(w) ==
    /\ run[w].pc = "fk_off"
    /\ fk_checks' = 0
    /\ run' = [run EXCEPT ![w] = EnterTable(run[w], 1)]
    /\ UNCHANGED <<gvars, call, pk_numeric, src, dest, cfgvars, sync_state, prev, runs, changes>>

\* ensure_tables: the destination table, created when dest_meta does not know it
EnsureDest(w) ==
    /\ run[w].pc = "ensure_dest"
    /\ IF DestName(w) \in run[w].meta
       THEN /\ run' = [run EXCEPT ![w].pc = "drop_stg"]
            /\ dest' = dest
       ELSE IF DestName(w) \in DOMAIN dest
       THEN Raise(w) /\ dest' = dest
       ELSE /\ dest' = [n \in DOMAIN dest \cup {DestName(w)} |->
                            IF n = DestName(w) THEN {} ELSE dest[n]]
            /\ run' = [run EXCEPT ![w].pc = "drop_stg",
                                  ![w].meta = run[w].meta \cup {DestName(w)}]
    /\ UNCHANGED <<gvars, call, pk_numeric, src, fk_checks, cfgvars, sync_state, prev, runs, changes>>

\* ensure_tables: DROP TABLE _stg_name when dest_meta knows it
DropStg(w) ==
    /\ run[w].pc = "drop_stg"
    /\ LET stg == StgName(DestName(w)) IN
       IF stg \notin run[w].meta
       THEN /\ run' = [run EXCEPT ![w].pc = "create_stg"]
            /\ dest' = dest
       ELSE IF stg \notin DOMAIN dest
       THEN Raise(w) /\ dest' = dest
       ELSE /\ dest' = [n \in DOMAIN dest \ {stg} |-> dest[n]]
            /\ run' = [run EXCEPT ![w].pc = "create_stg", ![w].meta = run[w].meta \ {stg}]
    /\ UNCHANGED <<gvars, call, pk_numeric, src, fk_checks, cfgvars, sync_state, prev, runs, changes>>

\* ensure_tables: CREATE TABLE _stg_name, then reflect
CreateStg(w) ==
    /\ run[w].pc = "create_stg"
    /\ LET stg == StgName(DestName(w)) IN
       IF stg \in DOMAIN dest
       THEN Raise(w) /\ dest' = dest
       ELSE /\ dest' = [n \in DOMAIN dest \cup {stg} |-> IF n = stg THEN {} ELSE dest[n]]
            /\ run' = [run EXCEPT ![w].pc = "read_cursor",
                                  ![w].meta = run[w].meta \cup {stg}]
    /\ UNCHANGED <<gvars, call, pk_numeric, src, fk_checks, cfgvars, sync_state, prev, runs, changes>>

\* run_sync step 3 without the lookup in sync_state: every run copies from the sentinel
ReadCursorIgnoresState(w) ==
    /\ run[w].pc = "read_cursor"
    /\ run' = [run EXCEPT ![w].pc = "copy",
                          ![w].last_pk = None,
                          ![w].cursor = IF ~IsNumeric(Tbl(w)) THEN run[w].cursor ELSE Sentinel,
                          ![w].offset = 0]
    /\ UNCHANGED <<gvars, call, dbvars, cfgvars, sync_state, prev, runs, changes>>

\* run_sync step 3 with the cursor of step 6 written here, before the copy and the merge
ReadCursorWritesAhead(w) ==
    /\ run[w].pc = "read_cursor"
    /\ LET last_pk == IF run[w].full THEN None
                      ELSE CursorGet(sync_state, run[w].cfg_id, Tbl(w))
       IN run' = [run EXCEPT ![w].pc = "copy",
                             ![w].last_pk = last_pk,
                             ![w].cursor = IF ~IsNumeric(Tbl(w)) THEN run[w].cursor
                                           ELSE IF last_pk # None THEN last_pk[1]
                                           ELSE Sentinel,
                             ![w].offset = 0]
    /\ sync_state' = CursorSet(sync_state, run[w].cfg_id, Tbl(w),
                               IF IsNumeric(Tbl(w)) THEN MaxPk(Tbl(w)) ELSE None)
    /\ UNCHANGED <<gvars, call, dbvars, cfgvars, prev, runs, changes>>

\* run_sync step 3, and the first lines of copy_to_staging
ReadCursor(w) ==
    /\ run[w].pc = "read_cursor"
    /\ LET last_pk == IF run[w].full THEN None
                      ELSE CursorGet(sync_state, run[w].cfg_id, Tbl(w))
       IN run' = [run EXCEPT ![w].pc = "copy",
                             ![w].last_pk = last_pk,
                             ![w].cursor = IF ~IsNumeric(Tbl(w)) THEN run[w].cursor
                                           ELSE IF last_pk # None THEN last_pk[1]
                                           ELSE Sentinel,
                             ![w].offset = 0]
    /\ UNCHANGED <<gvars, call, dbvars, cfgvars, sync_state, prev, runs, changes>>

\* dest_engine.execute(stg_tbl.insert(), rows): the staging table keeps the source's
\* primary key, so a key staged twice is rejected
StageRows(w, batch, after) ==
    LET stg == StgName(DestName(w))
        rows == {Project(batch[j], run[w].cols) : j \in 1..Len(batch)}
    IN IF stg \notin DOMAIN dest \/ Keys(rows) \cap Keys(dest[stg]) # {}
       THEN Raise(w) /\ dest' = dest
       ELSE /\ dest' = [dest EXCEPT ![stg] = @ \cup rows]
            /\ run' = [run EXCEPT ![w] =
                    [after EXCEPT !.staged =
                        [t \in DOMAIN run[w].staged \cup {Tbl(w)} |->
                            IF t = Tbl(w)
                            THEN rows \cup (IF t \in DOMAIN run[w].staged
                                            THEN run[w].staged[t] ELSE {})
                            ELSE run[w].staged[t]]]]

\* copy_to_staging with the running cursor saved to sync_state after every batch
CopyChunkSavesCursor(w) ==
    /\ run[w].pc = "copy"
    /\ IF IsNumeric(Tbl(w))
       THEN LET rows_raw == NumericBatch(Tbl(w), run[w].cursor) IN
            IF rows_raw = <<>>
            THEN run' = [run EXCEPT ![w].pc = "replace"] /\ dest' = dest
                 /\ sync_state' = sync_state
            ELSE /\ StageRows(w, rows_raw,
                              [run[w] EXCEPT !.cursor = Pk(rows_raw[Len(rows_raw)])])
                 /\ sync_state' = CursorSet(sync_state, run[w].cfg_id, Tbl(w),
                                            Some(Pk(rows_raw[Len(rows_raw)])))
       ELSE LET rows == OffsetBatch(Tbl(w), run[w].offset) IN
            /\ sync_state' = sync_state
            /\ IF rows = <<>>
               THEN run' = [run EXCEPT ![w].pc = "replace"] /\ dest' = dest
               ELSE StageRows(w, rows, [run[w] EXCEPT !.offset = @ + CHUNK])
    /\ UNCHANGED <<gvars, call, pk_numeric, src, fk_checks, cfgvars, prev, runs, changes>>

\* copy_to_staging: one pass of the while True loop of either path
CopyChunk(w) ==
    /\ run[w].pc = "copy"
    /\ IF IsNumeric(Tbl(w))
       THEN LET rows_raw == NumericBatch(Tbl(w), run[w].cursor) IN
            IF rows_raw = <<>>
            THEN run' = [run EXCEPT ![w].pc = "replace"] /\ dest' = dest
            ELSE StageRows(w, rows_raw,
                           [run[w] EXCEPT !.cursor = Pk(rows_raw[Len(rows_raw)])])
       ELSE LET rows == OffsetBatch(Tbl(w), run[w].offset) IN
            IF rows = <<>>
            THEN run' = [run EXCEPT ![w].pc = "replace"] /\ dest' = dest
            ELSE StageRows(w, rows, [run[w] EXCEPT !.offset = @ + CHUNK])
    /\ UNCHANGED <<gvars, call, pk_numeric, src, fk_checks, cfgvars, sync_state, prev, runs, changes>>

\* merge_into_target: REPLACE INTO name (cols) SELECT cols FROM _stg_name
Replace(w) ==
    /\ run[w].pc = "replace"
    /\ LET stg == StgName(DestName(w)) IN
       IF stg \notin DOMAIN dest \/ DestName(w) \notin DOMAIN dest
       THEN Raise(w) /\ dest' = dest
       ELSE /\ dest' = [dest EXCEPT ![DestName(w)] = ReplaceInto(@, dest[stg], run[w].cols)]
            /\ run' = [run EXCEPT ![w].pc = "truncate"]
    /\ UNCHANGED <<gvars, call, pk_numeric, src, fk_checks, cfgvars, sync_state, prev, runs, changes>>

\* merge_into_target without its TRUNCATE
TruncateLeftOut(w) ==
    /\ run[w].pc = "truncate"
    /\ dest' = dest
    /\ run' = [run EXCEPT ![w].pc = "cursor"]
    /\ UNCHANGED <<gvars, call, pk_numeric, src, fk_checks, cfgvars, sync_state, prev, runs, changes>>

\* merge_into_target: TRUNCATE _stg_name
Truncate(w) ==
    /\ run[w].pc = "truncate"
    /\ LET stg == StgName(DestName(w)) IN
       IF stg \notin DOMAIN dest
       THEN Raise(w) /\ dest' = dest
       ELSE /\ dest' = [dest EXCEPT ![stg] = {}]
            /\ run' = [run EXCEPT ![w].pc = "cursor"]
    /\ UNCHANGED <<gvars, call, pk_numeric, src, fk_checks, cfgvars, sync_state, prev, runs, changes>>

\* run_sync step 6 without the is_numeric test: the cursor is max(pk) for every table
CursorWriteAlwaysMax(w) ==
    /\ run[w].pc = "cursor"
    /\ LET value == MaxPk(Tbl(w)) IN
         /\ sync_state' = CursorSet(sync_state, run[w].cfg_id, Tbl(w), value)
         /\ run' = [run EXCEPT ![w] =
                EnterTable([run[w] EXCEPT !.wrote =
                                [t \in DOMAIN run[w].wrote \cup {Tbl(w)} |->
                                    IF t = Tbl(w) THEN value ELSE run[w].wrote[t]]],
                           run[w].i + 1)]
    /\ UNCHANGED <<gvars, call, dbvars, cfgvars, prev, runs, changes>>

\* run_sync step 6: the cursor of the table, then the next table of the plan
CursorWrite(w) ==
    /\ run[w].pc = "cursor"
    /\ LET value == IF IsNumeric(Tbl(w)) THEN MaxPk(Tbl(w)) ELSE None IN
         /\ sync_state' = CursorSet(sync_state, run[w].cfg_id, Tbl(w), value)
         /\ run' = [run EXCEPT ![w] =
                EnterTable([run[w] EXCEPT !.wrote =
                                [t \in DOMAIN run[w].wrote \cup {Tbl(w)} |->
                                    IF t = Tbl(w) THEN value ELSE run[w].wrote[t]]],
                           run[w].i + 1)]
    /\ UNCHANGED <<gvars, call, dbvars, cfgvars, prev, runs, changes>>

\* SET foreign_key_checks = 1, "Sync complete"
FkOn(w) ==
    /\ run[w].pc = "fk_on"
    /\ fk_checks' = 1
    /\ run' = [run EXCEPT ![w].pc = "done"]
    /\ UNCHANGED <<gvars, call, pk_numeric, src, dest, cfgvars, sync_state, prev, runs, changes>>

\* the statements of run_sync that go to a database, each of which may raise
\* (the cursor step queries the source only for a numeric key)
MayRaise(w) ==
    \/ run[w].pc \in {"reflect", "fk_off", "ensure_dest", "drop_stg", "create_stg",
                       "copy", "replace", "truncate", "fk_on"}
    \/ run[w].pc = "cursor" /\ IsNumeric(Tbl(w))

\* a statement raises and a handler writes the cursor of the table at hand on the way out
FailWritesCursor(w) ==
    /\ MayRaise(w)
    /\ Raise(w)
    /\ sync_state' = IF run[w].pc \in {"ensure_dest", "drop_stg", "create_stg", "copy",
                                         "replace", "truncate", "cursor"}
                      THEN CursorSet(sync_state, run[w].cfg_id, Tbl(w),
                                     IF IsNumeric(Tbl(w)) THEN MaxPk(Tbl(w)) ELSE None)
                      ELSE sync_state
    /\ UNCHANGED <<gvars, call, dbvars, cfgvars, prev, runs, changes>>

\* a statement of the loop body raises inside a try / except that goes on with the
\* next table of the plan
FailSkipsTable(w) ==
    /\ MayRaise(w)
    /\ IF run[w].pc \in {"reflect", "fk_off", "fk_on"}
       THEN Raise(w)
       ELSE run' = [run EXCEPT ![w] = EnterTable(run[w], run[w].i + 1)]
    /\ UNCHANGED <<gvars, call, dbvars, cfgvars, sync_state, prev, runs, changes>>

\* a database statement of run_sync raises (connection lost, statement rejected)
Fail(w) ==
    /\ MayRaise(w)
    /\ Raise(w)
    /\ UNCHANGED <<gvars, call, dbvars, cfgvars, sync_state, prev, runs, changes>>

---------------------------------------------------------------------------
(* The source database changes under the extractor                         *)

SrcInsert(t, k) ==
    /\ changes < MaxChanges
    /\ k \notin Keys(src[t])
    /\ src' = [src EXCEPT ![t] = @ \cup {SrcRow(t, k, 0)}]
    /\ changes' = changes + 1
    /\ UNCHANGED <<gvars, call, pk_numeric, dest, fk_checks, cfgvars, syncvars>>

SrcUpdate(t, k) ==
    /\ changes < MaxChanges
    /\ SrcRow(t, k, 0) \in src[t]
    /\ src' = [src EXCEPT ![t] = (@ \ {SrcRow(t, k, 0)}) \cup {SrcRow(t, k, 1)}]
    /\ changes' = changes + 1
    /\ UNCHANGED <<gvars, call, pk_numeric, dest, fk_checks, cfgvars, syncvars>>

---------------------------------------------------------------------------
(* fast.py                                                                 *)

\* the request bodies of /configure
Selections ==
    { [n \in {TblC} |-> <<"label">>],
      [n \in {NameC} |-> <<"label">>],
      [n \in {TblP} |-> <<"*">>],
      [n \in {NameQ} |-> <<"*">>],
      [n \in {NameT} |-> <<"*">>],
      [n \in {TblT} |-> <<"*">>] }

\* configure with the id taken and the selections stored before the plan is computed
ConfigureStoresFirst(selections) ==
    /\ next_id <= MaxConfigs
    /\ \E out \in SortedTablesOutcomes(DOMAIN selections) :
        /\ store' = [c \in DOMAIN store \cup {next_id} |->
                        IF c = next_id
                        THEN [selections |-> selections,
                              load_order |-> IF out.kind = "ok" THEN out.value ELSE <<>>]
                        ELSE store[c]]
        /\ next_id' = next_id + 1
        /\ call' = [op |-> "configure", arg |-> selections,
                    status |-> IF out.kind = "ok" THEN 200 ELSE 500, out |-> out]
    /\ UNCHANGED <<gvars, dbvars, syncvars, changes>>

\* POST /configure
Configure(selections) ==
    /\ next_id <= MaxConfigs
    /\ \E out \in SortedTablesOutcomes(DOMAIN selections) :
        IF out.kind = "ok"
        THEN /\ store' = [c \in DOMAIN store \cup {next_id} |->
                            IF c = next_id
                            THEN [selections |-> selections, load_order |-> out.value]
                            ELSE store[c]]
             /\ next_id' = next_id + 1
             /\ call' = [op |-> "configure", arg |-> selections, status |-> 200, out |-> out]
        ELSE /\ UNCHANGED <<store, next_id>>
             /\ call' = [op |-> "configure", arg |-> selections, status |-> 500, out |-> out]
    /\ UNCHANGED <<gvars, dbvars, syncvars, changes>>

---------------------------------------------------------------------------
(* The extractor: one configuration endpoint, one worker, a changing source *)

NoCall == [op |-> "none"]
NoPrev == [status |-> "none"]

InitSources == {{}, {Sentinel, 1}, {0, 1, 2}}
NumericChoices ==
    { [t \in SyncTables |-> t = TblP], [t \in SyncTables |-> t = TblC] }
RowsOf(t, keys) == {SrcRow(t, k, 0) : k \in keys}

Init ==
    /\ cat_tables = SyncCatTables
    /\ cat_fks = SyncCatFks
    /\ parents = BuildParents(SyncCatTables, SyncCatFks)
    /\ children = BuildChildren(SyncCatTables, SyncCatFks)
    /\ call = NoCall
    /\ pk_numeric \in NumericChoices
    /\ \E ks \in InitSources : src = [t \in SyncTables |-> RowsOf(t, ks)]
    /\ dest = <<>>
    /\ fk_checks = 1
    /\ store = <<>>
    /\ next_id = 1
    /\ sync_state = <<>>
    /\ run = [w \in Workers |-> IdleRun]
    /\ prev = NoPrev
    /\ runs = 0
    /\ changes = 0

Next ==
    \/ \E s \in Selections : Configure(s)
    \/ \E w \in Workers, c \in 1..MaxConfigs, f \in BOOLEAN : RunSync(w, c, f)
    \/ \E w \in Workers : Reflect(w)
    \/ \E w \in Workers : FkOff(w)
    \/ \E w \in Workers : EnsureDest(w)
    \/ \E w \in Workers : DropStg(w)
    \/ \E w \in Workers : CreateStg(w)
    \/ \E w \in Workers : ReadCursor(w)
    \/ \E w \in Workers : CopyChunk(w)
    \/ \E w \in Workers : Replace(w)
    \/ \E w \in Workers : Truncate(w)
    \/ \E w \in Workers : CursorWrite(w)
    \/ \E w \in Workers : FkOn(w)
    \/ \E w \in Workers : Fail(w)
    \/ \E t \in SyncTables, k \in KeyDomain : SrcInsert(t, k)
    \/ \E t \in SyncTables, k \in KeyDomain : SrcUpdate(t, k)

Spec == Init /\ [][Next]_vars

---------------------------------------------------------------------------
(* The planner: a DependencyGraph built over a drawn catalog, and calls    *)
(* of sorted_tables and _resolve on it                                     *)

MaxFks == 3          \* foreign keys in the catalog
MaxSel == 2          \* names in one selection

\* a.t, a.u and x.t always exist; a.v and b.t may
PlanCore == {<<SchemaA, NameT>>, <<SchemaA, NameU>>, <<SchemaX, NameT>>}
PlanOptional == {<<SchemaA, NameV>>, <<SchemaB, NameT>>}

\* get_foreign_keys reports referred_schema None for a table of the same schema
FkOf(c, p) ==
    [schema |-> c[1], table |-> c[2],
     referred_schema |-> IF p[1] = c[1] THEN None ELSE p[1], referred_table |-> p[2]]

SelNames ==
    {NameT, NameU, NameV} \cup {Qual(st[1], st[2]) : st \in PlanCore \cup PlanOptional}

IdleSync ==
    /\ pk_numeric = [t \in SyncTables |-> TRUE]
    /\ src = [t \in SyncTables |-> {}]
    /\ dest = <<>>
    /\ fk_checks = 1
    /\ store = <<>>
    /\ next_id = 1
    /\ sync_state = <<>>
    /\ run = [w \in Workers |-> IdleRun]
    /\ prev = NoPrev
    /\ runs = 0
    /\ changes = 0

InitPlan ==
    /\ \E opt \in SUBSET PlanOptional : cat_tables = PlanCore \cup opt
    /\ \E fks \in SUBSET {FkOf(c, p) : c \in cat_tables, p \in cat_tables} :
          /\ Cardinality(fks) <= MaxFks
          /\ cat_fks = fks
    /\ parents = BuildParents(cat_tables, cat_fks)
    /\ children = BuildChildren(cat_tables, cat_fks)
    /\ call = NoCall
    /\ IdleSync

\* graph.sorted_tables(selected); the graph is not changed by a call, so one call
\* per behaviour shows them all
SortedTablesCall(selected) ==
    /\ call = NoCall
    /\ \E out \in SortedTablesOutcomes(selected) :
          call' = [op |-> "sorted_tables", arg |-> selected, out |-> out]
    /\ UNCHANGED <<gvars, dbvars, cfgvars, syncvars, changes>>

\* graph._resolve(name)
ResolveCall(name) ==
    /\ call = NoCall
    /\ call' = [op |-> "_resolve", arg |-> name, out |-> Resolve(name)]
    /\ UNCHANGED <<gvars, dbvars, cfgvars, syncvars, changes>>

NextPlan ==
    \/ \E sel \in {s \in SUBSET SelNames : Cardinality(s) <= MaxSel} : SortedTablesCall(sel)
    \/ \E name \in SelNames : ResolveCall(name)

SpecPlan == InitPlan /\ [][NextPlan]_vars

---------------------------------------------------------------------------
(* What the claims about the planner speak of, stated on the catalog       *)

\* the tables of the scanned (non-excluded) schemas
ScannedTables == {Qual(st[1], st[2]) : st \in {x \in cat_tables : x[1] \notin ExcludeSchemas}}

\* the FK graph: child -> parent for every FK of a scanned table to another table
FkGraph ==
    {e \in {<<Qual(f.schema, f.table),
              Qual(IF f.referred_schema = None THEN f.schema ELSE f.referred_schema,
                   f.referred_table)>> : f \in {g \in cat_fks : g.schema \notin ExcludeSchemas}} :
        e[1] # e[2]}

GraphNodes == {e[1] : e \in FkGraph} \cup {e[2] : e \in FkGraph}

\* a path of one or more edges of E from a to b whose inner nodes are in N
RECURSIVE PathVia(_, _, _, _)
PathVia(E, a, b, N) ==
    IF N = {} THEN <<a, b>> \in E
    ELSE LET n == CHOOSE x \in N : TRUE IN
         \/ PathVia(E, a, b, N \ {n})
         \/ PathVia(E, a, n, N \ {n}) /\ PathVia(E, n, b, N \ {n})

\* p is a transitive FK ancestor of c
IsAncestor(p, c) == PathVia(FkGraph, c, p, GraphNodes)

\* the tables S and all their transitive ancestors
WithAncestors(S) == S \cup {p \in GraphNodes : \E c \in S : IsAncestor(p, c)}

\* the FK graph induced on S
Induced(S) == {e \in FkGraph : e[1] \in S /\ e[2] \in S}

\* t lies on a cycle of the FK graph induced on S
OnCycle(t, S) == PathVia(Induced(S), t, t, S)

\* the scanned tables a bare name stands for
TablesNamed(name) == {t \in ScannedTables : \E st \in cat_tables : t = Qual(st[1], name)}

\* a name that stands for one table: schema-qualified, or bare and in exactly one scanned schema
Resolvable(name) == HasDot(name) \/ Cardinality(TablesNamed(name)) = 1
TableOfName(name) == IF HasDot(name) THEN name ELSE CHOOSE t \in TablesNamed(name) : TRUE

\* the tables a selection asks for (every table of the graph when it is empty)
SelectedTables(selected) ==
    IF selected = {} THEN GraphNodes ELSE {TableOfName(n) : n \in selected}

Index(seq, x) == CHOOSE i \in 1..Len(seq) : seq[i] = x

IsSortedStr(seq) == \A i \in 1..(Len(seq) - 1) : StrLess(seq[i], seq[i + 1])

SortedTablesReturned == call.op = "sorted_tables" /\ call.out.kind = "ok"
CycleRaised == call.op = "sorted_tables" /\ call.out.kind = "ValueError"

\* C1 (as claimed): for a selection of resolvable names whose tables and ancestors hold
\* no cycle, sorted_tables returns them all exactly once, nothing else, parents first
C1_ReturnsClosureParentFirst ==
    (/\ call.op = "sorted_tables"
     /\ call.arg # {}
     /\ \A n \in call.arg : Resolvable(n)
     /\ \A t \in WithAncestors(SelectedTables(call.arg)) :
            ~OnCycle(t, WithAncestors(SelectedTables(call.arg))))
    => (/\ call.out.kind = "ok"
        /\ Range(call.out.value) = WithAncestors(SelectedTables(call.arg))
        /\ Len(call.out.value) = Cardinality(Range(call.out.value))
        /\ \A e \in Induced(Range(call.out.value)) :
               Index(call.out.value, e[2]) < Index(call.out.value, e[1]))

\* C1, for the selections whose names _resolve maps: the same statement holds
C1_HoldsOnceResolved ==
    (/\ call.op = "sorted_tables"
     /\ call.arg # {}
     /\ \A n \in call.arg : Resolve(n).kind = "ok"
     /\ \A t \in WithAncestors({Resolve(n).value : n \in call.arg}) :
            ~OnCycle(t, WithAncestors({Resolve(n).value : n \in call.arg})))
    => (/\ call.out.kind = "ok"
        /\ Range(call.out.value) = WithAncestors({Resolve(n).value : n \in call.arg})
        /\ Len(call.out.value) = Cardinality(Range(call.out.value))
        /\ \A e \in Induced(Range(call.out.value)) :
               Index(call.out.value, e[2]) < Index(call.out.value, e[1]))

\* C1: a state where the claim's case happened on a child selected by its bare name
C1_Witness ==
    /\ SortedTablesReturned
    /\ \E n \in call.arg : ~HasDot(n)
    /\ Len(call.out.value) >= 2
    /\ Range(call.out.value) # {Resolve(n).value : n \in call.arg}

\* C3 (as claimed): a bare name resolves to its table when exactly one scanned schema
\* holds a table of that name, is not found when none does, and is ambiguous, with
\* every candidate listed, when two or more do
C3_ResolveBareName ==
    (call.op = "_resolve" /\ ~HasDot(call.arg))
    => CASE Cardinality(TablesNamed(call.arg)) = 1 ->
                 call.out.kind = "ok" /\ {call.out.value} = TablesNamed(call.arg)
         [] Cardinality(TablesNamed(call.arg)) = 0 ->
                 call.out.kind = "KeyError" /\ call.out.why = "not found"
         [] OTHER ->
                 /\ call.out.kind = "KeyError"
                 /\ call.out.why = "ambiguous"
                 /\ call.out.candidates = TablesNamed(call.arg)

\* the tables sorted_tables orders once its names are resolved
Required ==
    WithAncestors(IF call.arg = {} THEN GraphNodes
                  ELSE {Resolve(n).value : n \in call.arg})

\* C4 (as claimed): for a selection of resolvable names, CycleError is raised exactly
\* when the selected tables and their ancestors hold a cycle through two or more tables
C4_CycleErrorIffCycle ==
    (call.op = "sorted_tables" /\ \A n \in call.arg : Resolvable(n))
    => (CycleRaised <=>
            \E t \in WithAncestors(SelectedTables(call.arg)) :
                OnCycle(t, WithAncestors(SelectedTables(call.arg))))

\* C4, for the selections whose names _resolve maps: the same statement holds
C4_HoldsOnceResolved ==
    (call.op = "sorted_tables" /\ \A n \in call.arg : Resolve(n).kind = "ok")
    => (CycleRaised <=> \E t \in Required : OnCycle(t, Required))

\* C5 (as claimed): the tables a CycleError names are exactly the tables of the
\* subset that are members of a cycle, in sorted order
C5_NamesExactlyCycleMembers ==
    CycleRaised
    => (/\ Range(call.out.cycle) = {t \in Required : OnCycle(t, Required)}
        /\ IsSortedStr(call.out.cycle))

\* t is on a cycle of the subset, or has an ancestor in the subset that is
Undischargeable(t, S) ==
    \E m \in S : OnCycle(m, S) /\ (t = m \/ PathVia(Induced(S), t, m, S))

\* C5 (amended): the tables a CycleError names are exactly the tables of the subset
\* that are on a cycle or descend from a table on a cycle, in sorted order
C5_NamesCycleMembersAndDescendants ==
    CycleRaised
    => (/\ Range(call.out.cycle) = {t \in Required : Undischargeable(t, Required)}
        /\ \A t \in Required : OnCycle(t, Required) => t \in Range(call.out.cycle)
        /\ IsSortedStr(call.out.cycle))

\* C5: a CycleError that names a cycle of three tables, and one that names a
\* descendant of a cycle
C5_Witness ==
    /\ CycleRaised
    /\ Len(call.out.cycle) = 3
    /\ \E t \in Range(call.out.cycle) : ~OnCycle(t, Required)

---------------------------------------------------------------------------
(* What the claims about the extractor speak of                            *)

\* the rows of a table of a database, None when the table does not exist
TableRows(db, name) == IF name \in DOMAIN db THEN Some(db[name]) ELSE None

\* the cursor entry of (job, table), None when there is no entry
CursorEntry(state, cfg_id, t) ==
    IF <<cfg_id, t>> \in DOMAIN state THEN Some(state[<<cfg_id, t>>]) ELSE None

\* the rows a run has inserted into the staging table of t
StagedRows(w, t) == IF t \in DOMAIN run[w].staged THEN run[w].staged[t] ELSE {}

\* the run of w is past the chunked copy of t
CopyComplete(w, t) ==
    /\ t \in Range(run[w].order)
    /\ \/ run[w].pc \in {"fk_on", "done"}
       \/ /\ run[w].pc \in {"ensure_dest", "drop_stg", "create_stg", "read_cursor",
                              "copy", "replace", "truncate", "cursor"}
          /\ \/ Index(run[w].order, t) < run[w].i
             \/ Index(run[w].order, t) = run[w].i /\ run[w].pc \in {"replace", "truncate", "cursor"}

\* the run of w follows a run of the same job that ended with the given status, and
\* the source has not changed since that run began
Follows(w, status) ==
    /\ run[w].pc \notin {"idle", "notfound"}
    /\ prev.status = status
    /\ prev.cfg_id = run[w].cfg_id
    /\ src = prev.pre.src

\* C2 (as claimed): when a run completes, every source row of a numeric-PK table of
\* the plan whose key is at most the stored cursor is in the destination (stated for
\* the keys above the sentinel)
C2_NoRowAtOrBelowCursorSkipped ==
    [][\A w \in Workers :
        (run[w].pc = "fk_on" /\ run'[w].pc = "done")
        => \A t \in Range(run[w].order) :
             (IsNumeric(t) /\ CursorGet(sync_state', run[w].cfg_id, t) # None)
             => \A r \in src'[t] :
                  (Pk(r) > Sentinel /\ Pk(r) <= CursorGet(sync_state', run[w].cfg_id, t)[1])
                  => Pk(r) \in Keys(dest'[BareName(t)])]_vars

\* C6: in a run that is not a full refresh and follows a successful run of the same
\* job with no source change since, a numeric-PK table has no row staged, and its
\* destination rows and cursor stay as the first run left them
C6_SecondRunStagesNothing ==
    \A w \in Workers :
        (Follows(w, "done") /\ ~run[w].full)
        => \A t \in Range(run[w].order) :
             IsNumeric(t)
             => /\ StagedRows(w, t) = {}
                /\ TableRows(dest, BareName(t)) = TableRows(run[w].pre.dest, BareName(t))
                /\ TableRows(dest, BareName(t)) # None
                /\ CursorEntry(sync_state, run[w].cfg_id, t)
                     = CursorEntry(run[w].pre.sync_state, run[w].cfg_id, t)
                /\ CursorEntry(sync_state, run[w].cfg_id, t) # None

\* C6: a second run that completed over a numeric-PK table with rows
C6_Witness ==
    \E w \in Workers :
        /\ Follows(w, "done") /\ ~run[w].full /\ run[w].pc = "done"
        /\ \E t \in Range(run[w].order) :
              IsNumeric(t) /\ Cardinality(dest[BareName(t)]) > CHUNK

\* the statements of the loop body of run_sync
LoopPcs ==
    {"ensure_dest", "drop_stg", "create_stg", "read_cursor", "copy", "replace", "truncate",
     "cursor"}

\* C7: once a statement of the loop body has raised at the i-th table, the tables
\* before it hold the cursor the run stored for them, the i-th and later tables hold
\* the cursor they had before the run, and the later tables have nothing staged and
\* their destination and staging tables as before the run
C7_FailureAbortsKeepsProgress ==
    \A w \in Workers :
        (run[w].pc = "failed" /\ run[w].at \in LoopPcs)
        => \A j \in 1..Len(run[w].order) :
             LET t == run[w].order[j] IN
             /\ j < run[w].i
                => /\ t \in DOMAIN run[w].wrote
                   /\ CursorEntry(sync_state, run[w].cfg_id, t) = Some(run[w].wrote[t])
             /\ j >= run[w].i
                => /\ t \notin DOMAIN run[w].wrote
                   /\ CursorEntry(sync_state, run[w].cfg_id, t)
                        = CursorEntry(run[w].pre.sync_state, run[w].cfg_id, t)
             /\ j > run[w].i
                => /\ StagedRows(w, t) = {}
                   /\ TableRows(dest, BareName(t)) = TableRows(run[w].pre.dest, BareName(t))
                   /\ TableRows(dest, StgName(BareName(t)))
                        = TableRows(run[w].pre.dest, StgName(BareName(t)))

\* C7: a run that raised at its second table after storing the first table's cursor,
\* which differs from the cursor before the run
C7_Witness ==
    \E w \in Workers :
        /\ run[w].pc = "failed" /\ run[w].at \in {"copy", "replace", "cursor"}
        /\ run[w].i = 2
        /\ CursorEntry(sync_state, run[w].cfg_id, run[w].order[1])
             # CursorEntry(run[w].pre.sync_state, run[w].cfg_id, run[w].order[1])

\* what run_sync does to one table when nothing raises and the source stands still:
\* db is [dest, sync_state] before the table, the result is [dest, sync_state] after it
TableSynced(db, cfg_id, full, t) ==
    LET name == BareName(t)
        cols == ResolveCols(store[cfg_id].selections, t)
        last_pk == IF full THEN None ELSE CursorGet(db.sync_state, cfg_id, t)
        seed == IF last_pk # None THEN last_pk[1] ELSE Sentinel
        staged == IF IsNumeric(t) THEN {r \in src[t] : Pk(r) > seed} ELSE src[t]
        old == IF name \in DOMAIN db.dest THEN db.dest[name] ELSE {}
    IN [dest |-> [n \in DOMAIN db.dest \cup {name, StgName(name)} |->
                    IF n = name THEN ReplaceInto(old, {Project(r, cols) : r \in staged}, cols)
                    ELSE IF n = StgName(name) THEN {}
                    ELSE db.dest[n]],
        sync_state |-> CursorSet(db.sync_state, cfg_id, t,
                                 IF IsNumeric(t) THEN MaxPk(t) ELSE None)]

\* what one uninterrupted successful run does to [dest, sync_state], table by table
RECURSIVE PlanSynced(_, _, _, _)
PlanSynced(db, cfg_id, full, order) ==
    IF order = <<>> THEN db
    ELSE PlanSynced(TableSynced(db, cfg_id, full, Head(order)), cfg_id, full, Tail(order))

Uninterrupted(pre, cfg_id, full) ==
    PlanSynced([dest |-> pre.dest, sync_state |-> pre.sync_state], cfg_id, full,
               store[cfg_id].load_order)

\* the tables of the plan the previous run had merged when it raised
MergedBeforeFailure ==
    {prev.order[j] : j \in {k \in 1..Len(prev.order) :
        \/ prev.at = "fk_on"
        \/ prev.at \in LoopPcs /\ k < prev.i
        \/ prev.at \in {"truncate", "cursor"} /\ k = prev.i}}

\* C8: a run that completes over a source that stood still leaves what one
\* uninterrupted run leaves; so does a run that completes after a run of the same job
\* and arguments raised, counted from the state before the failed run, and it
\* leaves the destination rows of the tables merged before the failure as they were
C8_ResumeEqualsUninterrupted ==
    \A w \in Workers :
        /\ (run[w].pc = "done" /\ src = run[w].pre.src)
           => /\ dest = Uninterrupted(run[w].pre, run[w].cfg_id, run[w].full).dest
              /\ sync_state = Uninterrupted(run[w].pre, run[w].cfg_id, run[w].full).sync_state
        /\ (run[w].pc = "done" /\ Follows(w, "failed") /\ prev.full = run[w].full)
           => /\ dest = Uninterrupted(prev.pre, run[w].cfg_id, run[w].full).dest
              /\ sync_state = Uninterrupted(prev.pre, run[w].cfg_id, run[w].full).sync_state
              /\ \A t \in MergedBeforeFailure :
                    dest[BareName(t)] = run[w].pre.dest[BareName(t)]

\* C8: a run completed after a run that raised once it had merged a table with more
\* rows than one batch
C8_Witness ==
    \E w \in Workers :
        /\ run[w].pc = "done" /\ Follows(w, "failed") /\ prev.full = run[w].full
        /\ prev.at \in LoopPcs
        /\ \E t \in MergedBeforeFailure : Cardinality(dest[BareName(t)]) > CHUNK
        /\ Range(prev.order) # MergedBeforeFailure

\* the names of a selection that name table t, qualified or bare
NamesOf(sel, t) == {n \in DOMAIN sel : n = t \/ (~HasDot(n) /\ n = BareName(t))}

\* the columns a row has a value in
FilledColumns(row) == {c \in DOMAIN row : row[c] # None}

\* C9 (as claimed): for a table the selection names, by its bare or its qualified
\* name, with an explicit column list, the columns staged and merged are the selected
\* columns, the NOT NULL columns without a default and the primary key, and no other
C9_ColumnsAreSelectedRequiredAndKey ==
    \A w \in Workers :
        run[w].pc \in {"copy", "replace", "truncate"}
        => \A n \in NamesOf(run[w].sel, Tbl(w)) :
             run[w].sel[n] # <<"*">>
             => LET want == Range(run[w].sel[n]) \cup RequiredCols(Tbl(w)) \cup {PkName(Tbl(w))}
                IN /\ run[w].cols = want
                   /\ \A r \in StagedRows(w, Tbl(w)) : FilledColumns(r) = want

\* C9, for a table the selection names by its qualified name: the same statement holds
C9_HoldsForQualifiedNames ==
    \A w \in Workers :
        (run[w].pc \in {"copy", "replace", "truncate"} /\ Tbl(w) \in DOMAIN run[w].sel)
        => (run[w].sel[Tbl(w)] # <<"*">>
            => LET want == Range(run[w].sel[Tbl(w)]) \cup RequiredCols(Tbl(w))
                             \cup {PkName(Tbl(w))}
               IN /\ run[w].cols = want
                  /\ \A r \in StagedRows(w, Tbl(w)) : FilledColumns(r) = want
                  /\ run[w].pc = "truncate"
                     => \A r \in dest[DestName(w)] :
                          Pk(r) \in Keys(StagedRows(w, Tbl(w))) => FilledColumns(r) = want)

\* C10: when a run completes, the cursor of every non-numeric-PK table of its plan is
\* None; and a run that follows a completed run of the same job, with no source
\* change since, has staged every source row of such a table once its copy is over
C10_NonNumericCursorNoneFullRestage ==
    \A w \in Workers :
        \A t \in Range(run[w].order) :
            ~IsNumeric(t)
            => /\ run[w].pc = "done"
                  => CursorEntry(sync_state, run[w].cfg_id, t) = Some(None)
               /\ (Follows(w, "done") /\ CopyComplete(w, t))
                  => StagedRows(w, t)
                       = {Project(r, ResolveCols(run[w].sel, t)) : r \in src[t]}

\* C10: a second run completed over a non-numeric-PK table with more rows than one batch
C10_Witness ==
    \E w \in Workers :
        /\ run[w].pc = "done" /\ Follows(w, "done") /\ ~run[w].full
        /\ \E t \in Range(run[w].order) :
              /\ ~IsNumeric(t)
              /\ Cardinality(StagedRows(w, t)) > CHUNK
              /\ CursorEntry(run[w].pre.sync_state, run[w].cfg_id, t) = Some(None)

\* the run of worker w is at the table of the plan at which the previous run of the
\* same job and arguments raised, and that run raised at statement at
RetryOf(w, at) ==
    /\ Follows(w, "failed") /\ prev.full = run[w].full
    /\ prev.at = at /\ run[w].pc \in LoopPcs /\ run[w].i = prev.i

\* C11: at every merge each staged row becomes the one destination row of its key,
\* equal to it in every column, the destination rows of other keys stay, and merging
\* the same staging rows once more would change nothing; and a run that stages again
\* the rows a failed run had merged (it raised between REPLACE and TRUNCATE) leaves
\* the destination table as it found it
C11_MergeIdempotent ==
    [][\A w \in Workers :
        (run[w].pc = "replace" /\ run'[w].pc = "truncate")
        => LET name == DestName(w)
               stg == dest[StgName(name)]
               old == dest[name]
               new == dest'[name]
           IN /\ \A r \in stg : {x \in new : Pk(x) = Pk(r)} = {r}
              /\ \A x \in old : Pk(x) \notin Keys(stg) => x \in new
              /\ Keys(new) = Keys(old) \cup Keys(stg)
              /\ Cardinality(new) = Cardinality(Keys(new))
              /\ ReplaceInto(new, stg, run[w].cols) = new
              /\ RetryOf(w, "truncate") => new = old /\ new = run[w].pre.dest[name]]_vars

\* C11: a run has merged again the rows, more than one batch of them, that the
\* previous run had merged before it raised between REPLACE and TRUNCATE
C11_Witness ==
    \E w \in Workers :
        /\ RetryOf(w, "truncate") /\ run[w].pc = "truncate"
        /\ Cardinality(StagedRows(w, Tbl(w))) > CHUNK
        /\ Keys(StagedRows(w, Tbl(w))) \subseteq Keys(run[w].pre.dest[DestName(w)])

\* the foreign keys _build is handed: those of the tables of the scanned schemas
ScannedFks == {f \in cat_fks : f.schema \in ScannedSchemas(cat_tables)}

\* C12: what a call of sorted_tables whose names resolve returned or raised is the
\* one outcome under every order in which the sets and dicts of the graph may be
\* walked, the graph is the same under every order in which the catalog lists the
\* foreign keys, and the tables without a parent in the subset come first in the
\* returned sequence, in lexicographic order
C12_SortedTablesDeterministic ==
    (call.op = "sorted_tables" /\ \A n \in call.arg : Resolve(n).kind = "ok")
    => /\ \A req \in ClosureUpSets(IF call.arg = {} THEN KnownTables
                                     ELSE {Resolve(n).value : n \in call.arg}) :
              ToposortOutcomes(req) = {call.out}
       /\ \A listing \in Iterations(ScannedFks) :
              BuildFold(listing, <<>>, <<>>) = <<parents, children>>
       /\ call.out.kind = "ok"
          => LET roots == {t \in Required : ParentsGet(t) \cap Required = {}} IN
             /\ Range(SubSeq(call.out.value, 1, Cardinality(roots))) = roots
             /\ IsSortedStr(SubSeq(call.out.value, 1, Cardinality(roots)))

\* C12: a returned order with two tables that have no parent in the subset and two
\* children freed by one parent
C12_Witness ==
    /\ SortedTablesReturned
    /\ Cardinality({t \in Required : ParentsGet(t) \cap Required = {}}) >= 2
    /\ \E p \in Required : Cardinality(ChildrenGet(p) \cap Required) >= 2
    /\ Cardinality(ScannedFks) >= 2

\* the tables of the load orders stored so far
PlannedTables == UNION {Range(store[c].load_order) : c \in DOMAIN store}

\* C13: a configure request whose sorted_tables raised stores nothing and leaves the
\* id counter, the destination, the cursors and the runs as they were; every stored
\* configuration holds the order sorted_tables returned for its selection; and a run
\* reads, stages and merges only for a stored configuration, in its stored order
C13_PlanningFailsBeforeDataMovement ==
    [][/\ (call' # call /\ call'.op = "configure" /\ call'.out.kind # "ok")
          => /\ call'.status = 500
             /\ store' = store /\ next_id' = next_id
             /\ dest' = dest /\ sync_state' = sync_state /\ run' = run
       /\ next_id' = Cardinality(DOMAIN store') + 1
       /\ \A c \in DOMAIN store' :
             SortedTablesOutcomes(DOMAIN store'[c].selections)
                = {[kind |-> "ok", value |-> store'[c].load_order]}
       /\ \A w \in Workers :
             run'[w].pc \notin {"idle", "notfound"}
             => /\ run'[w].cfg_id \in DOMAIN store'
                /\ run'[w].order = store'[run'[w].cfg_id].load_order
                /\ DOMAIN run'[w].staged \subseteq Range(run'[w].order)
       /\ DOMAIN dest' \subseteq {BareName(t) : t \in PlannedTables}
                                 \cup {StgName(BareName(t)) : t \in PlannedTables}
       /\ {k[2] : k \in DOMAIN sync_state'} \subseteq PlannedTables]_vars

\* C13: configure failed on a cycle, and the run_sync called for the id it would
\* have given found no configuration and moved nothing
C13_Witness ==
    /\ call.op = "configure" /\ call.status = 500 /\ call.out.kind = "ValueError"
    /\ store = <<>> /\ next_id = 1
    /\ \E w \in Workers : run[w].pc = "notfound"
    /\ dest = <<>> /\ sync_state = <<>>

---------------------------------------------------------------------------
(* Two callers of run_sync: the background task of /extract_now and the    *)
(* scheduler's nightly job                                                 *)

\* thread 1 runs the background task of /extract_now, thread 2 the scheduler's job
Threads == {1, 2}

InitRace ==
    /\ cat_tables = SyncCatTables
    /\ cat_fks = SyncCatFks
    /\ parents = BuildParents(SyncCatTables, SyncCatFks)
    /\ children = BuildChildren(SyncCatTables, SyncCatFks)
    /\ call = NoCall
    /\ pk_numeric \in NumericChoices
    /\ \E ks \in InitSources : src = [t \in SyncTables |-> RowsOf(t, ks)]
    /\ dest = <<>>
    /\ fk_checks = 1
    /\ store = <<>>
    /\ next_id = 1
    /\ sync_state = <<>>
    /\ run = [w \in Threads |-> IdleRun]
    /\ prev = NoPrev
    /\ runs = 0
    /\ changes = 0

\* POST /extract_now: 404 for an unknown id, else bg.add_task(run_sync, config_id)
ExtractNow(cfg_id) ==
    /\ cfg_id \in DOMAIN store
    /\ RunSync(1, cfg_id, FALSE)

\* the CronTrigger of the job cfg-<id> fires: sched calls run_sync(cfg_id); the job
\* was added by /schedule_daily_2am, which needs the id to be stored
ScheduledRun(cfg_id) ==
    /\ cfg_id \in DOMAIN store
    /\ RunSync(2, cfg_id, FALSE)

NextRace ==
    \/ \E s \in Selections : Configure(s)
    \/ \E c \in 1..MaxConfigs : ExtractNow(c)
    \/ \E c \in 1..MaxConfigs : ScheduledRun(c)
    \/ \E w \in Threads : Reflect(w)
    \/ \E w \in Threads : FkOff(w)
    \/ \E w \in Threads : EnsureDest(w)
    \/ \E w \in Threads : DropStg(w)
    \/ \E w \in Threads : CreateStg(w)
    \/ \E w \in Threads : ReadCursor(w)
    \/ \E w \in Threads : CopyChunk(w)
    \/ \E w \in Threads : Replace(w)
    \/ \E w \in Threads : Truncate(w)
    \/ \E w \in Threads : CursorWrite(w)
    \/ \E w \in Threads : FkOn(w)

SpecRace == InitRace /\ [][NextRace]_vars

\* C14 (as claimed): no two executions of run_sync for the same job are at the same
\* time inside the loop body of the same table, where its staging table is dropped,
\* created, filled, merged and truncated and its cursor is written
C14_AtMostOneRunPerJob ==
    \A w1 \in Threads, w2 \in Threads :
        (w1 # w2 /\ run[w1].pc \in LoopPcs /\ run[w2].pc \in LoopPcs
                 /\ run[w1].cfg_id = run[w2].cfg_id)
        => Tbl(w1) # Tbl(w2)

\* C14 (as claimed), its consequence: when the runs of one job have all completed,
\* every source row of each table of the plan is in the destination
C14_CompletedRunsCopiedEveryRow ==
    (\A w \in Threads : run[w].pc = "done") /\ changes = 0
    => \A t \in Range(run[1].order) : Keys(src[t]) \ {Sentinel} \subseteq Keys(dest[BareName(t)])

\* the tables of S not among the emitted ones whose parents in S are all emitted
Frontier(S, emitted) ==
    {t \in S \ emitted : \A p \in S : <<t, p>> \in FkGraph => p \in emitted}

\* C15 (as claimed): every table of a returned order is the lexicographically
\* smallest table of the frontier left by the tables before it
C15_EmitsSmallestOfFrontier ==
    (SortedTablesReturned /\ \A n \in call.arg : Resolve(n).kind = "ok")
    => \A i \in 1..Len(call.out.value) :
          call.out.value[i]
            = MinStr(Frontier(Required, Range(SubSeq(call.out.value, 1, i - 1))))

\* C15, what the code keeps: every table of a returned order is in the frontier left
\* by the tables before it, and the tables that start in the frontier come first,
\* in lexicographic order
C15_EmitsFromFrontierRootsSorted ==
    (SortedTablesReturned /\ \A n \in call.arg : Resolve(n).kind = "ok")
    => /\ \A i \in 1..Len(call.out.value) :
             call.out.value[i]
               \in Frontier(Required, Range(SubSeq(call.out.value, 1, i - 1)))
       /\ LET n == Cardinality(Frontier(Required, {})) IN
             /\ Range(SubSeq(call.out.value, 1, n)) = Frontier(Required, {})
             /\ IsSortedStr(SubSeq(call.out.value, 1, n))

\* C16: a cursor entry changes only in step 6 of a run_sync, for the job and the table
\* that run is at, with the rows the run staged for the table merged into the
\* destination and the staging table emptied; and the cursor of the table a run is
\* at, or raised at, and of the tables after it in the plan is the one the run found
C16_CursorWrittenOnlyAfterMerge ==
    [][\A w \in Workers :
        /\ \A c \in 1..MaxConfigs, t \in SyncTables :
              CursorEntry(sync_state', c, t) # CursorEntry(sync_state, c, t)
              => /\ run[w].pc = "cursor" /\ run'[w].pc \in {"ensure_dest", "fk_on"}
                 /\ c = run[w].cfg_id /\ t = Tbl(w)
                 /\ StagedRows(w, t) \subseteq dest[DestName(w)]
                 /\ dest[StgName(DestName(w))] = {}
        /\ (run'[w].pc \in LoopPcs \/ (run'[w].pc = "failed" /\ run'[w].at \in LoopPcs))
           => \A j \in run'[w].i..Len(run'[w].order) :
                CursorEntry(sync_state', run'[w].cfg_id, run'[w].order[j])
                  = CursorEntry(run'[w].pre.sync_state, run'[w].cfg_id, run'[w].order[j])]_vars

\* C16: a run has stored, after the merge of more rows than one batch, a cursor other
\* than the one it found, and is at the next table of its plan
C16_Witness ==
    \E w \in Workers :
        /\ run[w].pc \in LoopPcs /\ run[w].i > 1
        /\ LET t == run[w].order[run[w].i - 1] IN
             /\ t \in DOMAIN run[w].wrote
             /\ CursorEntry(sync_state, run[w].cfg_id, t) = Some(run[w].wrote[t])
             /\ CursorEntry(run[w].pre.sync_state, run[w].cfg_id, t) # Some(run[w].wrote[t])
             /\ run[w].wrote[t] # None
             /\ Cardinality(StagedRows(w, t)) > CHUNK

\* the state of the j-th table of the plan in the run with record r: the loop is
\* before it (Pending), in steps 1 to 4 for it (Staging), in steps 5 and 6 (Merging),
\* past it (Done), or an exception left the loop body at it (Failed)
TableState(r, j) ==
    LET at == IF r.pc = "failed" THEN r.at ELSE r.pc IN
    IF at \in {"fk_on", "done"} THEN "Done"
    ELSE IF at \notin LoopPcs THEN "Pending"
    ELSE IF j < r.i THEN "Done"
    ELSE IF j > r.i THEN "Pending"
    ELSE IF r.pc = "failed" THEN "Failed"
    ELSE IF at \in {"replace", "truncate", "cursor"} THEN "Merging"
    ELSE "Staging"

TableStep(a, b) ==
    \/ a = b
    \/ a = "Pending" /\ b = "Staging"
    \/ a = "Staging" /\ b = "Merging"
    \/ a = "Merging" /\ b = "Done"
    \/ a \in {"Pending", "Staging", "Merging"} /\ b = "Failed"

\* C17: in every step of a run each table of the plan keeps its state or moves
\* Pending -> Staging -> Merging -> Done or from one of the first three to Failed; a
\* table is out of Pending only when every table before it in the plan, each of its
\* parents among them, is Done, and at most one table is in Staging or Merging
C17_TableStateMachine ==
    [][\A w \in Workers :
        runs' = runs
        => /\ run'[w].order = run[w].order
           /\ \A j \in 1..Len(run[w].order) :
                 /\ TableStep(TableState(run[w], j), TableState(run'[w], j))
                 /\ TableState(run'[w], j) # "Pending"
                    => /\ \A k \in 1..(j - 1) : TableState(run'[w], k) = "Done"
                       /\ \A p \in ParentsGet(run[w].order[j]) :
                             \E k \in 1..Len(run[w].order) :
                                run[w].order[k] = p /\ TableState(run'[w], k) = "Done"
           /\ Cardinality({j \in 1..Len(run[w].order) :
                              TableState(run'[w], j) \in {"Staging", "Merging"}}) <= 1]_vars

\* C17: the second table of a plan is being merged, the first is Done
C17_Witness ==
    \E w \in Workers :
        /\ Len(run[w].order) >= 2
        /\ TableState(run[w], 1) = "Done"
        /\ TableState(run[w], 2) = "Merging"

\* C18: foreign_key_checks is 0 whenever a run is in the loop body of a table of its
\* plan; it is set to 0 only by the statement before the loop and set to 1 only by
\* the statement after the loop, when every table of the plan is Done; and it is 1
\* when the run has completed
C18_FkChecksSuspendedForThePlan ==
    [][\A w \in Workers :
        /\ run'[w].pc \in LoopPcs => fk_checks' = 0
        /\ fk_checks' # fk_checks
           => \/ /\ fk_checks' = 0 /\ run[w].pc = "fk_off"
                 /\ \A j \in 1..Len(run[w].order) : TableState(run[w], j) = "Pending"
              \/ /\ fk_checks' = 1 /\ run[w].pc = "fk_on" /\ run'[w].pc = "done"
                 /\ \A j \in 1..Len(run[w].order) : TableState(run[w], j) = "Done"
        /\ run'[w].pc = "done" => fk_checks' = 1]_vars

\* C18: a run that follows a completed run is merging the second table of its plan
\* with the checks off
C18_Witness ==
    \E w \in Workers :
        /\ Follows(w, "done") /\ run[w].pc = "replace" /\ run[w].i = 2
        /\ fk_checks = 0

\* C19: the staging table of the table a run is at is empty when the copy begins,
\* holds the rows this run staged, and no other, until the merge, and is empty after
\* the merge, as are the staging tables of the tables the run is done with
C19_StagingEmptyAtCopyAndAfterMerge ==
    \A w \in Workers :
        run[w].pc \in {"read_cursor", "copy", "replace", "truncate", "cursor"}
        => LET stg == StgName(DestName(w)) IN
           /\ stg \in DOMAIN dest
           /\ run[w].pc = "read_cursor" => dest[stg] = {} /\ StagedRows(w, Tbl(w)) = {}
           /\ run[w].pc \in {"copy", "replace", "truncate"}
              => dest[stg] = StagedRows(w, Tbl(w))
           /\ run[w].pc = "cursor" => dest[stg] = {}
           /\ \A j \in 1..(run[w].i - 1) :
                 dest[StgName(BareName(run[w].order[j]))] = {}

\* C19: the copy of a table begins in a run that found rows in the staging table,
\* left by the run before it, which raised while staging or merging that table
C19_Witness ==
    \E w \in Workers :
        /\ Follows(w, "failed") /\ prev.at \in {"copy", "replace", "truncate"}
        /\ run[w].pc = "read_cursor" /\ run[w].i = prev.i
        /\ StgName(DestName(w)) \in DOMAIN run[w].pre.dest
        /\ Cardinality(run[w].pre.dest[StgName(DestName(w))]) >= CHUNK
        /\ dest[StgName(DestName(w))] = {}

\* the cursor run_sync hands to copy_to_staging for table t in the run of worker w
StoredCursor(w, t) ==
    IF run[w].full THEN None ELSE CursorGet(run[w].pre.sync_state, run[w].cfg_id, t)

\* copy_to_staging: the key the first batch starts above
Seed(w, t) == IF StoredCursor(w, t) # None THEN StoredCursor(w, t)[1] ELSE Sentinel

\* C20 (as claimed): once the copy of a numeric-PK table is over, with the source as
\* it was when the run began, the rows staged are the source rows with a key above
\* the seed; and with no stored cursor the seed is below every key of the table, so
\* that every source row is staged
C20_StagesRowsAboveSeed ==
    \A w \in Workers :
        \A t \in Range(run[w].order) :
            (IsNumeric(t) /\ CopyComplete(w, t) /\ src = run[w].pre.src)
            => /\ StagedRows(w, t)
                    = {Project(r, ResolveCols(run[w].sel, t)) :
                          r \in {x \in src[t] : Pk(x) > Seed(w, t)}}
               /\ StoredCursor(w, t) = None
                  => /\ \A r \in src[t] : Seed(w, t) < Pk(r)
                     /\ Keys(StagedRows(w, t)) = Keys(src[t])

\* C20, what the code keeps: the rows staged are the source rows with a key above
\* the seed, which is the stored cursor or -1
C20_HoldsAboveTheSeed ==
    \A w \in Workers :
        \A t \in Range(run[w].order) :
            (IsNumeric(t) /\ CopyComplete(w, t) /\ src = run[w].pre.src)
            => /\ StagedRows(w, t)
                    = {Project(r, ResolveCols(run[w].sel, t)) :
                          r \in {x \in src[t] : Pk(x) > Seed(w, t)}}
               /\ StoredCursor(w, t) = None
                  => Keys(StagedRows(w, t)) = {k \in Keys(src[t]) : k > Sentinel}

\* C21 (as claimed): sorted_tables called with no selection returns every table of
\* the scanned schemas exactly once, the tables without any foreign key included,
\* and no other table
C21_NoSelectionReturnsEveryTable ==
    (SortedTablesReturned /\ call.arg = {})
    => /\ Range(call.out.value) = ScannedTables
       /\ Len(call.out.value) = Cardinality(ScannedTables)

\* C21, what the code keeps: with no selection the tables returned are those that
\* take part in a foreign key between two tables, each once, every parent before
\* its child
C21_ReturnsTablesOfTheFkGraph ==
    (SortedTablesReturned /\ call.arg = {})
    => /\ Range(call.out.value) = GraphNodes
       /\ Len(call.out.value) = Cardinality(GraphNodes)
       /\ \A e \in FkGraph : Index(call.out.value, e[2]) < Index(call.out.value, e[1])

\* C22 (as claimed): when a run_sync that has executed SET foreign_key_checks = 0
\* has ended, by returning or by raising, foreign_key_checks is 1
C22_FkChecksOnWhenRunEnds ==
    \A w \in Workers :
        (\/ run[w].pc = "done"
         \/ run[w].pc = "failed" /\ run[w].at \in LoopPcs \cup {"fk_on"})
        => fk_checks = 1

\* C22, what the code keeps: foreign_key_checks is 1 when a run has returned, and 0
\* when a run has raised in the loop body or at the statement after the loop
C22_FkChecksOnOnlyWhenCompleted ==
    \A w \in Workers :
        /\ run[w].pc = "done" => fk_checks = 1
        /\ (run[w].pc = "failed" /\ run[w].at \in LoopPcs \cup {"fk_on"}) => fk_checks = 0

=============================================================================
